---- MODULE Spec2Model ----
(***************************************************************************)
(* Flow-field canvas (static/flow_field.js): the field generator, the      *)
(* nearest-point lookup, the particle advector and the frame scheduler     *)
(* with its debounced resize, as one state machine.                        *)
(*                                                                         *)
(* Numbers: the script computes in IEEE doubles; here every real is a      *)
(* fixed-point integer counting thousandths (Q == 1000), so 11314 stands   *)
(* for 11.314.  Products are rescaled by Q and truncated toward zero.      *)
(***************************************************************************)
EXTENDS Integers, Sequences, FiniteSets, TLC

\* ------------------------------------------------------------------------
\* FIXED-POINT ARITHMETIC

\* Thousandths per unit.
Q == 10 * 10 * 10

Abs(a) == IF a < 0 THEN -a ELSE a

Min2(a, b) == IF a <= b THEN a ELSE b

\* Integer quotient truncated toward zero (b > 0).
TruncDiv(a, b) == IF a >= 0 THEN a \div b ELSE -((-a) \div b)

\* a * b and a / b of two fixed-point numbers.
FxMul(a, b) == TruncDiv(a * b, Q)
FxDiv(a, b) == IF b > 0 THEN TruncDiv(a * Q, b) ELSE -TruncDiv(a * Q, -b)

\* Floor of the square root of n > 0 by Newton's iteration from x >= sqrt(n).
RECURSIVE Newton(_, _)
Newton(n, x) ==
    LET y == (x + n \div x) \div 2
    IN  IF y >= x THEN x ELSE Newton(n, y)

ISqrt(n) == IF n <= 0 THEN 0 ELSE Newton(n, Min2(n, 46340))

\* Math.sqrt of a fixed-point number a >= 0.
FxSqrt(a) == ISqrt(a * Q)

\* Math.hypot(dx, dy): the iteration starts from |dx| + |dy| >= hypot(dx, dy).
FxHypot(dx, dy) ==
    LET n == dx * dx + dy * dy
    IN  IF n = 0 THEN 0 ELSE Newton(n, Abs(dx) + Abs(dy))

\* Math.PI.
FxPi == 3142
FxTwoPi == 2 * FxPi

\* The odd Taylor series of the sine from the term t = (-1)^k r^(2k+1)/(2k+1)!.
RECURSIVE SinSeries(_, _, _, _)
SinSeries(r, t, k, acc) ==
    IF k > 8 \/ t = 0 THEN acc
    ELSE LET nxt == -TruncDiv(FxMul(FxMul(t, r), r), (2 * k + 2) * (2 * k + 3))
         IN  SinSeries(r, nxt, k + 1, acc + nxt)

\* Math.sin(x): x reduced to [-pi, pi), then the Taylor series.
FxSin(x) ==
    LET r == ((x + FxPi) % FxTwoPi) - FxPi
    IN  SinSeries(r, r, 0, r)

\* Math.cos(x) = sin(x + pi/2).
FxCos(x) == FxSin(x + FxPi \div 2)

\* ------------------------------------------------------------------------
\* CONSTANTS OF THE SCRIPT

PHI == 1618
PHI_INV == FxDiv(Q, PHI)
PI_INV == FxDiv(Q, FxPi)

FPS_MULTIPLIER == 1
FPS_RESISTANCE == FxDiv(FxMul(60 * Q, FPS_MULTIPLIER), 3650)

E_FIELD_PATTERNS == <<"SINUSOIDAL", "INVERSE_SINUSOIDAL", "ANTI_CLOCKWISE", "CLOCKWISE">>

\* Object.keys(E_FIELD_PATTERNS) as a set.
PatternNames == {E_FIELD_PATTERNS[i] : i \in 1..Len(E_FIELD_PATTERNS)}

\* The debounce delay of the resize handler, in milliseconds.
RESIZE_DELAY == 200

\* ------------------------------------------------------------------------
\* BOUNDS OF THE MODEL

\* g_frame_tick_limit (5916 in the script), scaled down.
TickLimit == 3

\* log2 of g_field_steps (5 in the script), scaled down.
StepsLog2 == 1

\* Largest log2(steps) the generator is tried with.
MaxStepsLog2 == 2

\* How far past TickLimit + 1 repeated shuffles may push the tick.
MaxOverrun == 1

\* The pairs of values two successive calls of Math.random() are drawn from, in [0, 1).
RandomDraws == {<<0, 950>>, <<950, 0>>}

\* window.innerWidth x window.innerHeight, in pixels.
WindowSizes == {<<8, 6>>, <<6, 8>>}

\* Time advances in steps of at most this many milliseconds.
TimeStep == RESIZE_DELAY \div 2

\* ------------------------------------------------------------------------
\* UTILS

\* Utils.manhattan_distance(x1, y1, x2, y2).
manhattan_distance(x1, y1, x2, y2) == Abs(x2 - x1) + Abs(y2 - y1)

\* Utils.range_tolist(start, end, step) for step > 0.
RECURSIVE range_up(_, _, _)
range_up(i, end, step) ==
    IF i <= end THEN <<i>> \o range_up(i + step, end, step) ELSE <<>>

\* Utils.range_tolist(start, end, step) for step < 0.
RECURSIVE range_down(_, _, _)
range_down(i, end, step) ==
    IF i >= end THEN <<i>> \o range_down(i + step, end, step) ELSE <<>>

range_tolist(start, end, step) ==
    IF step > 0 THEN range_up(start, end, step) ELSE range_down(start, end, step)

\* ------------------------------------------------------------------------
\* VALUES THAT ARE NOT NUMBERS

\* The doubles that are no finite number, and undefined where a number is expected,
\* are integers outside the range of every finite value of the model.
Infinity == 2 ^ 30
NaN == -(2 ^ 30)
Undefined == 2 ^ 30 + 1

\* v is a finite number.
IsNum(v) == -(2 ^ 30) < v /\ v < 2 ^ 30

\* undefined where an object is expected (g_closest_point), and null.
UndefinedObject == [undefined |-> TRUE]
Null == [null |-> TRUE]

\* Where a pattern name is expected and none is there.
NoPattern == "none"

\* arr[i] of a JavaScript array held as a sequence (i counts from 0).
At(arr, i) == IF i >= 0 /\ i < Len(arr) THEN arr[i + 1] ELSE Undefined

\* Math.sin, Math.cos, Math.sqrt and the unary minus on any value.
MathSin(v) == IF IsNum(v) THEN FxSin(v) ELSE NaN
MathCos(v) == IF IsNum(v) THEN FxCos(v) ELSE NaN
MathSqrt(v) == IF IsNum(v) /\ v >= 0 THEN FxSqrt(v) ELSE NaN
Neg(v) == IF IsNum(v) THEN -v ELSE NaN
Times(v, c) == IF IsNum(v) THEN FxMul(v, c) ELSE NaN

\* c * v and v + w for a factor c >= 0 and values that may be Infinity or NaN:
\* 0 * Infinity is NaN, Infinity plus a number is Infinity.
Scaled(c, v) ==
    IF IsNum(v) THEN FxMul(c, v)
    ELSE IF v = Infinity /\ c > 0 THEN Infinity
    ELSE NaN
Plus(v, w) ==
    IF IsNum(v) /\ IsNum(w) THEN v + w
    ELSE IF v = NaN \/ w = NaN \/ v = Undefined \/ w = Undefined THEN NaN
    ELSE Infinity

\* a === b on numbers: NaN equals nothing.
StrictEquals(a, b) == a # NaN /\ b # NaN /\ a = b

\* No call made yet.
NoCall == [called |-> FALSE]

\* A thrown error, and a normal return.
Throw(kind) == [threw |-> TRUE, error |-> kind]
Return(v) == [threw |-> FALSE, value |-> v]

\* inv_lerp without the guard: the quotient, whatever the bounds (the sign of an
\* infinite quotient is not kept).
inv_lerp_NoGuard(a, b, value) ==
    IF ~(IsNum(a) /\ IsNum(b) /\ IsNum(value)) THEN Return(NaN)
    ELSE IF b = a THEN Return(IF value = a THEN NaN ELSE Infinity)
    ELSE Return(FxDiv(value - a, b - a))

\* Utils.inv_lerp(a, b, value).
inv_lerp(a, b, value) ==
    IF StrictEquals(b, a) THEN Throw("Error")
    ELSE IF ~(IsNum(a) /\ IsNum(b) /\ IsNum(value)) THEN Return(NaN)
    ELSE Return(FxDiv(value - a, b - a))

\* The interpolation without the switch on t, as in the older script.
lerp_NoSwitch(a, b, t) == Plus(Scaled(Q - t, a), Scaled(t, b))

\* Utils.lerp(a, b, t), for 0 <= t <= 1.
lerp(a, b, t) ==
    CASE t = 0 -> a
      [] t = Q -> b
      [] OTHER -> Plus(Scaled(Q - t, a), Scaled(t, b))

\* Number.isInteger(Math.log2(n)) for an integer n.
RECURSIVE IsPow2(_)
IsPow2(n) ==
    IF n < 1 THEN FALSE
    ELSE IF n = 1 THEN TRUE
    ELSE n % 2 = 0 /\ IsPow2(n \div 2)

\* ------------------------------------------------------------------------
\* FIELD GENERATOR

\* grid.map((row) => row.map(f)).
MapGrid(grid, f(_)) == [i \in DOMAIN grid |-> [j \in DOMAIN grid[i] |-> f(grid[i][j])]]

SqrtScaled(val) == MathSqrt(Times(Times(val, PHI_INV), PI_INV))
NegSqrtScaled(val) == Neg(SqrtScaled(val))

\* The switch with a default that falls back to the sinusoidal grids.
map_flow_vectors_DefaultSinusoidal(pattern, xgrid, ygrid) ==
    CASE pattern = "INVERSE_SINUSOIDAL" ->
            Return([ugrid |-> MapGrid(xgrid, MathCos), vgrid |-> MapGrid(ygrid, MathSin)])
      [] pattern = "CLOCKWISE" ->
            Return([ugrid |-> MapGrid(ygrid, NegSqrtScaled), vgrid |-> MapGrid(xgrid, SqrtScaled)])
      [] pattern = "ANTI_CLOCKWISE" ->
            Return([ugrid |-> MapGrid(ygrid, SqrtScaled), vgrid |-> MapGrid(xgrid, SqrtScaled)])
      [] OTHER ->
            Return([ugrid |-> MapGrid(ygrid, MathSin), vgrid |-> MapGrid(xgrid, MathCos)])

\* FlowFieldFn._map_flow_vectors(pattern, xgrid, ygrid).
map_flow_vectors(pattern, xgrid, ygrid) ==
    CASE pattern = "SINUSOIDAL" ->
            Return([ugrid |-> MapGrid(ygrid, MathSin), vgrid |-> MapGrid(xgrid, MathCos)])
      [] pattern = "INVERSE_SINUSOIDAL" ->
            Return([ugrid |-> MapGrid(xgrid, MathCos), vgrid |-> MapGrid(ygrid, MathSin)])
      [] pattern = "CLOCKWISE" ->
            Return([ugrid |-> MapGrid(ygrid, NegSqrtScaled), vgrid |-> MapGrid(xgrid, SqrtScaled)])
      [] pattern = "ANTI_CLOCKWISE" ->
            Return([ugrid |-> MapGrid(ygrid, SqrtScaled), vgrid |-> MapGrid(xgrid, SqrtScaled)])
      [] OTHER -> Throw("TypeError")

\* The concatenation of the rows of a grid, first row first.
RECURSIVE Flatten(_)
Flatten(rows) == IF rows = <<>> THEN <<>> ELSE Head(rows) \o Flatten(Tail(rows))

\* The outer loop of xgrid stopping after two rows.
XGrid_AtMostTwoRows(xvals, nsteps) ==
    [i \in 1..Min2(nsteps, 2) |-> [j \in 1..nsteps |-> At(xvals, j - 1)]]

\* yrow.push(yvals[j]) where the code has yvals[i].
YGrid_ByColumn(yvals, nsteps) == [i \in 1..nsteps |-> [j \in 1..nsteps |-> At(yvals, j - 1)]]

\* The two loops of gen_field that fill xgrid and ygrid.
XGrid(xvals, nsteps) == [i \in 1..nsteps |-> [j \in 1..nsteps |-> At(xvals, j - 1)]]
YGrid(yvals, nsteps) == [i \in 1..nsteps |-> [j \in 1..nsteps |-> At(yvals, i - 1)]]

\* The flatMap reading ugrid and vgrid at [j][i] where the code has [i][j].
FlatMapPoints_Transposed(xgrid, ygrid, ugrid, vgrid) ==
    Flatten([i \in DOMAIN xgrid |->
                [j \in DOMAIN xgrid[i] |->
                    [x |-> xgrid[i][j], y |-> ygrid[i][j],
                     u |-> ugrid[j][i], v |-> vgrid[j][i]]]])

\* xgrid.flatMap((xrow, i) => xrow.map((x, j) => ({x, y, u, v}))).
FlatMapPoints(xgrid, ygrid, ugrid, vgrid) ==
    Flatten([i \in DOMAIN xgrid |->
                [j \in DOMAIN xgrid[i] |->
                    [x |-> xgrid[i][j], y |-> ygrid[i][j],
                     u |-> ugrid[i][j], v |-> vgrid[i][j]]]])

\* The assertions gen_field makes on its arguments when __DEBUG is on.
GenPreconditions(nrows, ncols, nsteps) == IsPow2(nsteps) /\ nrows = ncols

\* The assertions gen_field makes on its result when __DEBUG is on.
GenPostconditions(data, xgrid) ==
    /\ Len(data) = Len(xgrid) * Len(xgrid[1])
    /\ IsPow2(Len(data))

\* FlowFieldFn.gen_field(field), for nsteps >= 1 and nrows > 0.
gen_field(field, debug) ==
    LET nrows  == field.rows
        ncols  == field.cols
        nsteps == field.steps
        step   == TruncDiv(nrows, nsteps)
        xvals  == range_tolist(0, nrows, step)
        yvals  == range_tolist(0, ncols, step)
        xgrid  == XGrid(xvals, nsteps)
        ygrid  == YGrid(yvals, nsteps)
        uv     == map_flow_vectors(field.pattern, xgrid, ygrid)
        data   == FlatMapPoints(xgrid, ygrid, uv.value.ugrid, uv.value.vgrid)
    IN  IF debug /\ ~GenPreconditions(nrows, ncols, nsteps) THEN Throw("AssertionError")
        ELSE IF uv.threw THEN uv
        ELSE IF debug /\ ~GenPostconditions(data, xgrid) THEN Throw("AssertionError")
        ELSE Return(data)

\* new FlowField(cols, rows, steps, pattern).
FlowField(cols, rows, steps, pattern, debug) ==
    LET this == [cols |-> cols, rows |-> rows, steps |-> steps, pattern |-> pattern]
        data == gen_field(this, debug)
    IN  IF data.threw THEN data
        ELSE Return([cols |-> cols, rows |-> rows, steps |-> steps, pattern |-> pattern,
                     field |-> data.value])

\* ------------------------------------------------------------------------
\* STATE

VARIABLES
    DEBUG,                  \* __DEBUG: the page is served from localhost
    innerWidth,             \* window.innerWidth
    innerHeight,            \* window.innerHeight
    canvas_width,           \* canvas.width
    canvas_height,          \* canvas.height
    g_particle,
    g_closest_points_map,
    g_cur_field_pattern,
    g_field_instance,
    g_scale,
    g_canvas_width,
    g_canvas_height,
    g_cell_count,
    g_frame_tick,
    g_frame_tick_animation_is_paused,
    g_closest_point,
    g_animation_frame_id_handle,
    g_is_drawn_once,
    timeout_id,             \* the timeout_id of the debounced resize handler's closure
    raf_callbacks,          \* the host's pending requestAnimationFrame callbacks
    timers,                 \* the host's pending setTimeout timers
    started,                \* main() has run
    op,                     \* the handler that ran last
    fx,                     \* what the handler that ran last did (frames, field drawings, resets)
    stopped_by,             \* why no frame is scheduled: "none" (running), "limit" or "user"
    epoch_clean,            \* no stop, shuffle or resize since the last start or reload
    epoch_frames,           \* frames executed since the last start or reload (0 once not clean)
    reset_frames,           \* frames executed since the last start, reload, shuffle or resize firing
    reset_draws,            \* field drawings since the last start, reload, shuffle or resize firing
    elapsed,                \* milliseconds since the last call of handle_resize, up to RESIZE_DELAY
    burst_events,           \* calls of handle_resize in the current or the last burst (up to 2)
    burst_fires,            \* runs of the debounced reset since the last call of handle_resize
    gen_args,               \* the generator's arguments (generator specification only)
    gen_out,                \* the generator's result (generator specification only)
    fn_args,                \* the arguments of a call of one function on its own
    fn_out                  \* what that call returned or threw

prog_vars ==
    <<DEBUG, innerWidth, innerHeight, canvas_width, canvas_height, g_particle,
      g_closest_points_map, g_cur_field_pattern, g_field_instance, g_scale,
      g_canvas_width, g_canvas_height, g_cell_count, g_frame_tick,
      g_frame_tick_animation_is_paused, g_closest_point, g_animation_frame_id_handle,
      g_is_drawn_once, timeout_id, raf_callbacks, timers, started>>

obs_vars ==
    <<op, fx, stopped_by, epoch_clean, epoch_frames, reset_frames, reset_draws,
      elapsed, burst_events, burst_fires>>

gen_vars == <<gen_args, gen_out, fn_args, fn_out>>

vars == <<prog_vars, obs_vars, gen_vars>>

\* The value of g_animation_frame_id_handle and of timeout_id before any handle is stored.
NoHandle == 0

\* g_field_shape = 2 ** 3.5.
g_field_shape == 11314

\* g_field_steps = 2 ** 5 in the script.
g_field_steps == 2 ^ StepsLog2

g_frame_tick_limit == TickLimit

\* The cache switched on.
with_lru_cache_On == TRUE

\* The const with_lru_cache of _get_flow_vector_at_position.
with_lru_cache == FALSE

\* What a handler has done so far.
NoFx == [frames |-> 0, field_draws |-> 0, work_tick |-> 0, resets |-> 0,
         hit_limit |-> FALSE, drawn_pattern |-> NoPattern, advected_pattern |-> NoPattern,
         shuffled_from |-> NoPattern]

\* The program's state as one record, for the handlers to transform.
G == [DEBUG |-> DEBUG, innerWidth |-> innerWidth, innerHeight |-> innerHeight,
      canvas_width |-> canvas_width, canvas_height |-> canvas_height,
      g_particle |-> g_particle, g_closest_points_map |-> g_closest_points_map,
      g_cur_field_pattern |-> g_cur_field_pattern, g_field_instance |-> g_field_instance,
      g_scale |-> g_scale, g_canvas_width |-> g_canvas_width,
      g_canvas_height |-> g_canvas_height, g_cell_count |-> g_cell_count,
      g_frame_tick |-> g_frame_tick,
      g_frame_tick_animation_is_paused |-> g_frame_tick_animation_is_paused,
      g_closest_point |-> g_closest_point,
      g_animation_frame_id_handle |-> g_animation_frame_id_handle,
      g_is_drawn_once |-> g_is_drawn_once, timeout_id |-> timeout_id,
      raf_callbacks |-> raf_callbacks, timers |-> timers, fx |-> NoFx]

\* The next state is the record r.
Becomes(r) ==
    /\ DEBUG' = r.DEBUG
    /\ innerWidth' = r.innerWidth
    /\ innerHeight' = r.innerHeight
    /\ canvas_width' = r.canvas_width
    /\ canvas_height' = r.canvas_height
    /\ g_particle' = r.g_particle
    /\ g_closest_points_map' = r.g_closest_points_map
    /\ g_cur_field_pattern' = r.g_cur_field_pattern
    /\ g_field_instance' = r.g_field_instance
    /\ g_scale' = r.g_scale
    /\ g_canvas_width' = r.g_canvas_width
    /\ g_canvas_height' = r.g_canvas_height
    /\ g_cell_count' = r.g_cell_count
    /\ g_frame_tick' = r.g_frame_tick
    /\ g_frame_tick_animation_is_paused' = r.g_frame_tick_animation_is_paused
    /\ g_closest_point' = r.g_closest_point
    /\ g_animation_frame_id_handle' = r.g_animation_frame_id_handle
    /\ g_is_drawn_once' = r.g_is_drawn_once
    /\ timeout_id' = r.timeout_id
    /\ raf_callbacks' = r.raf_callbacks
    /\ timers' = r.timers
    /\ fx' = r.fx

\* ------------------------------------------------------------------------
\* HOST: requestAnimationFrame, cancelAnimationFrame, setTimeout, clearTimeout

\* A handle no pending entry uses.
FreshId(entries) == CHOOSE n \in 1..(Cardinality(entries) + 1) : \A e \in entries : e.id # n

\* requestAnimationFrame(() => animate(ff)), the handle stored in g_animation_frame_id_handle.
requestAnimationFrame(s, ff) ==
    LET id == FreshId(s.raf_callbacks)
    IN  [s EXCEPT !.raf_callbacks = @ \cup {[id |-> id, ff |-> ff]},
                  !.g_animation_frame_id_handle = id]

cancelAnimationFrame(s, handle) ==
    [s EXCEPT !.raf_callbacks = {cb \in @ : cb.id # handle}]

\* A clearTimeout that cancels nothing.
clearTimeout_Noop(s, id) == s

clearTimeout(s, id) == [s EXCEPT !.timers = {t \in @ : t.id # id}]

\* timeout_id = setTimeout(fn, delay) inside the debounced function.
setTimeout(s, delay) ==
    LET id == FreshId(s.timers)
    IN  [s EXCEPT !.timers = @ \cup {[id |-> id, remaining |-> delay]},
                  !.timeout_id = id]

\* ------------------------------------------------------------------------
\* SPATIAL LOOKUP

\* dist <= closest.distance: the later of two equally near points wins.
LessThan_OrEqual(dist, distance) ==
    dist # NaN /\ distance # NaN /\ dist <= distance

\* dist < closest.distance.
LessThan(dist, distance) ==
    dist # NaN /\ distance # NaN /\ dist < distance

\* The distance along x only.
Distance_XOnly(x, y, point, with_manhattan_distance) ==
    IF with_manhattan_distance
    THEN manhattan_distance(x, y, point.x, y)
    ELSE FxHypot(point.x - x, 0)

\* The distance the reducer computes from (x, y) to point.
Distance(x, y, point, with_manhattan_distance) ==
    IF with_manhattan_distance
    THEN manhattan_distance(x, y, point.x, point.y)
    ELSE FxHypot(point.x - x, point.y - y)

\* data.reduce(reducer, closest) from index i on, the reducer being
\* (closest, point) => dist < closest.distance ? {point, distance: dist} : closest.
RECURSIVE Reduce(_, _, _, _, _, _)
Reduce(data, i, closest, x, y, with_manhattan_distance) ==
    IF i > Len(data) THEN closest
    ELSE LET point == data[i]
             dist  == Distance(x, y, point, with_manhattan_distance)
         IN  IF LessThan(dist, closest.distance)
             THEN Reduce(data, i + 1, [point |-> point, distance |-> dist],
                         x, y, with_manhattan_distance)
             ELSE Reduce(data, i + 1, closest, x, y, with_manhattan_distance)

\* The key under which the position (x, y) is cached.
CacheKey(x, y, scale) ==
    LET s0 == TruncDiv(scale, Q) * Q
        s1 == s0 + 10 * Q - (s0 % (10 * Q))
        s2 == s1 \div 2
        s3 == s2 + 10 * Q - (s2 % (10 * Q))
    IN  <<TruncDiv(FxMul(x, s3), Q), TruncDiv(FxMul(y, s3), Q)>>

\* The lookup without the assignment to g_closest_point.
get_flow_vector_at_position_NoRecord(s, x, y, data, with_manhattan_distance) ==
    LET closest == Reduce(data, 1, [point |-> Null, distance |-> Infinity],
                          x, y, with_manhattan_distance).point
    IN  [s |-> s, flow_vec |-> [u |-> closest.u, v |-> closest.v]]

\* ParticleFn._get_flow_vector_at_position(x, y, data, with_manhattan_distance):
\* the state after the call and the vector returned.
get_flow_vector_at_position(s, x, y, data, with_manhattan_distance) ==
    LET key_xy  == CacheKey(x, y, s.g_scale)
        closest == Reduce(data, 1, [point |-> Null, distance |-> Infinity],
                          x, y, with_manhattan_distance).point
        flow_vec == [u |-> closest.u, v |-> closest.v]
    IN  IF with_lru_cache /\ key_xy \in DOMAIN s.g_closest_points_map
        THEN [s |-> s, flow_vec |-> s.g_closest_points_map[key_xy]]
        ELSE [s |-> [s EXCEPT !.g_closest_point = closest,
                              !.g_closest_points_map =
                                  IF with_lru_cache THEN (key_xy :> flow_vec) @@ @ ELSE @],
              flow_vec |-> flow_vec]

\* ------------------------------------------------------------------------
\* PARTICLE ADVECTOR

\* The wrap subtracting the extent from the edge coordinate too.
Wrap_AtExtent(c, extent) ==
    IF c < 0 THEN c + extent
    ELSE IF c >= extent THEN c - extent
    ELSE c

\* The wrap of one coordinate around the canvas edge.
Wrap(c, extent) ==
    IF c < 0 THEN c + extent
    ELSE IF c > extent THEN c - extent
    ELSE c

\* The blend assigned to the coordinate where the code adds it.
advect_axis_Replace(coord, p, nforce, is_lerped, t_interpolate) ==
    IF is_lerped THEN lerp(p, nforce, t_interpolate) ELSE coord + nforce

\* The update of one coordinate: mut_particle.x += ... with or without lerp.
advect_axis(coord, p, nforce, is_lerped, t_interpolate) ==
    IF is_lerped THEN coord + lerp(p, nforce, t_interpolate) ELSE coord + nforce

\* The position update keeping the force of the x axis in the particle's speed.
advect_particle_StoresSpeed(s, data, is_lerped, t_interpolate) ==
    LET p_x == FxDiv(s.g_particle.x, s.g_scale)
        p_y == FxDiv(s.g_particle.y, s.g_scale)
        got == get_flow_vector_at_position(s, p_x, p_y, data, FALSE)
        resistance == FxMul(s.g_scale, FPS_RESISTANCE)
        nforceu == FxMul(got.flow_vec.u, resistance)
        nforcev == FxMul(got.flow_vec.v, resistance)
    IN  [got.s EXCEPT
            !.g_particle.x = advect_axis(s.g_particle.x, p_x, nforceu, is_lerped, t_interpolate),
            !.g_particle.y = advect_axis(s.g_particle.y, p_y, nforcev, is_lerped, t_interpolate),
            !.g_particle.speed = nforceu]

\* update_particle_via_field up to the wrap: the lookup and the position update.
advect_particle(s, data, is_lerped, t_interpolate) ==
    LET p_x == FxDiv(s.g_particle.x, s.g_scale)
        p_y == FxDiv(s.g_particle.y, s.g_scale)
        got == get_flow_vector_at_position(s, p_x, p_y, data, FALSE)
        resistance == FxMul(s.g_scale, FPS_RESISTANCE)
        nforceu == FxMul(got.flow_vec.u, resistance)
        nforcev == FxMul(got.flow_vec.v, resistance)
    IN  [got.s EXCEPT
            !.g_particle.x = advect_axis(s.g_particle.x, p_x, nforceu, is_lerped, t_interpolate),
            !.g_particle.y = advect_axis(s.g_particle.y, p_y, nforcev, is_lerped, t_interpolate)]

\* The wrap of the particle around the canvas edges.
wrap_particle(s) ==
    [s EXCEPT !.g_particle.x = Wrap(@, s.g_canvas_width),
              !.g_particle.y = Wrap(@, s.g_canvas_height)]

\* ParticleFn.update_particle_via_field(mut_particle, data, is_lerped, t_interpolate)
\* on g_particle.
update_particle_via_field(s, data, is_lerped, t_interpolate) ==
    wrap_particle(advect_particle(s, data, is_lerped, t_interpolate))

\* ------------------------------------------------------------------------
\* CANVAS

\* stop_animation without the cancelAnimationFrame call.
stop_animation_NoCancel(s, frame_id_handle) == s

\* CanvasFn.stop_animation(frame_id_handle).
stop_animation(s, frame_id_handle) == cancelAnimationFrame(s, frame_id_handle)

\* CanvasFn.set_square_canvas_dimensions().
set_square_canvas_dimensions(s) ==
    LET w == s.innerWidth
        h == s.innerHeight
    IN  [s EXCEPT !.canvas_width = w, !.canvas_height = IF w < h THEN w ELSE h]

\* ------------------------------------------------------------------------
\* EVENT HANDLERS

\* reset_all without the assignment to g_scale.
reset_all_StaleScale(s, rx, ry) ==
    LET c == set_square_canvas_dimensions(s)
    IN  [c EXCEPT !.g_particle.x = FxMul(rx, c.canvas_width),
                  !.g_particle.y = FxMul(ry, c.canvas_height),
                  !.g_canvas_width = c.canvas_width,
                  !.g_canvas_height = c.canvas_height,
                  !.g_cell_count = FxMul(c.canvas_width, c.canvas_height),
                  !.g_closest_point = UndefinedObject,
                  !.g_frame_tick = 1,
                  !.g_is_drawn_once = FALSE,
                  !.g_closest_points_map = << >>,
                  !.fx.resets = @ + 1]

\* reset_all leaving the particle where it is.
reset_all_KeepParticle(s, rx, ry) ==
    LET c == set_square_canvas_dimensions(s)
    IN  [c EXCEPT !.g_scale = FxDiv(c.canvas_width, g_field_shape),
                  !.g_canvas_width = c.canvas_width,
                  !.g_canvas_height = c.canvas_height,
                  !.g_cell_count = FxMul(c.canvas_width, c.canvas_height),
                  !.g_closest_point = UndefinedObject,
                  !.g_frame_tick = 1,
                  !.g_is_drawn_once = FALSE,
                  !.g_closest_points_map = << >>,
                  !.fx.resets = @ + 1]

\* reset_all without the assignment to g_frame_tick.
reset_all_KeepTick(s, rx, ry) ==
    LET c == set_square_canvas_dimensions(s)
    IN  [c EXCEPT !.g_particle.x = FxMul(rx, c.canvas_width),
                  !.g_particle.y = FxMul(ry, c.canvas_height),
                  !.g_scale = FxDiv(c.canvas_width, g_field_shape),
                  !.g_canvas_width = c.canvas_width,
                  !.g_canvas_height = c.canvas_height,
                  !.g_cell_count = FxMul(c.canvas_width, c.canvas_height),
                  !.g_closest_point = UndefinedObject,
                  !.g_is_drawn_once = FALSE,
                  !.g_closest_points_map = << >>,
                  !.fx.resets = @ + 1]

\* EventHandlerFn.reset_all(), rx and ry the two values Math.random() returns.
reset_all(s, rx, ry) ==
    LET c == set_square_canvas_dimensions(s)
    IN  [c EXCEPT !.g_particle.x = FxMul(rx, c.canvas_width),
                  !.g_particle.y = FxMul(ry, c.canvas_height),
                  !.g_scale = FxDiv(c.canvas_width, g_field_shape),
                  !.g_canvas_width = c.canvas_width,
                  !.g_canvas_height = c.canvas_height,
                  !.g_cell_count = FxMul(c.canvas_width, c.canvas_height),
                  !.g_closest_point = UndefinedObject,
                  !.g_frame_tick = 1,
                  !.g_is_drawn_once = FALSE,
                  !.g_closest_points_map = << >>,
                  !.fx.resets = @ + 1]

\* The debounced function without the clearTimeout call.
debounced_NoClear(s, delay) == setTimeout(s, delay)

\* The function Utils.debounce(fn, delay) returns, called once.
debounced(s, delay) == setTimeout(clearTimeout(s, s.timeout_id), delay)

\* EventHandlerFn.handle_resize().
handle_resize(s) == debounced(s, RESIZE_DELAY)

\* One draw, without the loop that rejects the current index.
RejectionSample_NoLoop(cur_pattern_index, nkeys) == 0..(nkeys - 1)

\* The values the rejection loop of handle_shuffle_field_pattern can end with.
RejectionSample(cur_pattern_index, nkeys) ==
    {rand_num \in 0..(nkeys - 1) : rand_num # cur_pattern_index}

\* keys.findIndex((val) => val === g_cur_field_pattern).
FindIndex(keys, val) ==
    IF \E i \in 1..Len(keys) : keys[i] = val
    THEN (CHOOSE i \in 1..Len(keys) : keys[i] = val /\ \A j \in 1..(i - 1) : keys[j] # val) - 1
    ELSE -1

\* ------------------------------------------------------------------------
\* SCHEDULER

\* The break condition with >= for >.
TickLimitReached_Inclusive(tick) == tick >= g_frame_tick_limit

\* The break condition of draw().
TickLimitReached(tick) == tick > g_frame_tick_limit

\* The static field drawing of draw(), guarded by g_is_drawn_once.
draw_field_once(s, ff) ==
    IF ~s.g_is_drawn_once
    THEN [s EXCEPT !.g_is_drawn_once = TRUE,
                   !.fx.field_draws = @ + 1,
                   !.fx.drawn_pattern = ff.pattern]
    ELSE s

\* The function draw() inside animate(ff).
draw(s, ff) ==
    LET s1 == [s EXCEPT !.g_frame_tick = @ + 1,
                        !.fx.frames = @ + 1,
                        !.fx.work_tick = s.g_frame_tick + 1,
                        !.fx.advected_pattern = ff.pattern]
        s2 == draw_field_once(s1, ff)
        s3 == update_particle_via_field(s2, ff.field, TRUE, 950)
    IN  IF TickLimitReached(s3.g_frame_tick)
        THEN [stop_animation(s3, s3.g_animation_frame_id_handle) EXCEPT !.fx.hit_limit = TRUE]
        ELSE requestAnimationFrame(s3, ff)

\* animate(ff).
animate(s, ff) ==
    IF ~s.g_frame_tick_animation_is_paused THEN draw(s, ff) ELSE s

\* new FlowField(g_field_shape, g_field_shape, g_field_steps, pattern) for each pattern,
\* with __DEBUG off and on: the constructor is a pure function of these, computed once.
NewFlowField ==
    [debug \in BOOLEAN |->
        [pattern \in PatternNames |->
            FlowField(g_field_shape, g_field_shape, g_field_steps, pattern, debug)]]

\* The shuffle without the call of stop_animation.
handle_shuffle_field_pattern_NoStop(s, rand_num) ==
    LET s1 == [s EXCEPT !.g_cur_field_pattern = E_FIELD_PATTERNS[rand_num + 1],
                        !.fx.shuffled_from = s.g_cur_field_pattern]
        s2 == [s1 EXCEPT !.g_field_instance =
                   NewFlowField[s1.DEBUG][s1.g_cur_field_pattern].value]
        s3 == handle_resize(s2)
    IN  animate(s3, s3.g_field_instance)

\* The shuffle restarting the loop on the Field it has just replaced.
handle_shuffle_field_pattern_OldField(s, rand_num) ==
    LET s1 == [s EXCEPT !.g_cur_field_pattern = E_FIELD_PATTERNS[rand_num + 1],
                        !.fx.shuffled_from = s.g_cur_field_pattern]
        s2 == [s1 EXCEPT !.g_field_instance =
                   NewFlowField[s1.DEBUG][s1.g_cur_field_pattern].value]
        s3 == handle_resize(s2)
        s4 == stop_animation(s3, s3.g_animation_frame_id_handle)
    IN  animate(s4, s.g_field_instance)

\* EventHandlerFn.handle_shuffle_field_pattern(), rand_num the value its loop ends with.
handle_shuffle_field_pattern(s, rand_num) ==
    LET s1 == [s EXCEPT !.g_cur_field_pattern = E_FIELD_PATTERNS[rand_num + 1],
                        !.fx.shuffled_from = s.g_cur_field_pattern]
        s2 == [s1 EXCEPT !.g_field_instance =
                   NewFlowField[s1.DEBUG][s1.g_cur_field_pattern].value]
        s3 == handle_resize(s2)
        s4 == stop_animation(s3, s3.g_animation_frame_id_handle)
    IN  animate(s4, s4.g_field_instance)

\* The listener without the call of reset_all.
reload_click_NoReset(s, rx, ry) ==
    LET s1 == stop_animation(s, s.g_animation_frame_id_handle)
    IN  animate(s1, s1.g_field_instance)

\* The click listener of reload_animation_toggle.
reload_click(s, rx, ry) ==
    LET s1 == stop_animation(s, s.g_animation_frame_id_handle)
        s2 == reset_all(s1, rx, ry)
    IN  animate(s2, s2.g_field_instance)

\* ------------------------------------------------------------------------
\* OBSERVATION

\* n + k, saturating at cap.
SatAdd(n, k, cap) == Min2(n + k, cap)

FrameCap == g_frame_tick_limit + 2

\* The scheduler state after a handler that (re)starts the loop.
AfterStart(r) == IF r.fx.hit_limit THEN "limit" ELSE "none"

\* ------------------------------------------------------------------------
\* INITIAL STATE: the script has been evaluated, main() has not run yet.

InitProgram(size, rx, ry, debug) ==
    /\ DEBUG = debug
    /\ innerWidth = size[1] * Q
    /\ innerHeight = size[2] * Q
    /\ canvas_width = innerWidth
    /\ canvas_height = (IF innerWidth < innerHeight THEN innerWidth ELSE innerHeight)
    /\ g_particle = [x |-> FxMul(rx, canvas_width), y |-> FxMul(ry, canvas_height),
                     speed |-> Q, size |-> 2 * Q]
    /\ g_closest_points_map = << >>
    /\ g_cur_field_pattern = "SINUSOIDAL"
    /\ g_field_instance = NewFlowField[debug]["SINUSOIDAL"].value
    /\ g_scale = FxDiv(canvas_width, g_field_shape)
    /\ g_canvas_width = canvas_width
    /\ g_canvas_height = canvas_height
    /\ g_cell_count = FxMul(canvas_width, canvas_height)
    /\ g_frame_tick = 1
    /\ g_frame_tick_animation_is_paused = FALSE
    /\ g_closest_point = UndefinedObject
    /\ g_animation_frame_id_handle = NoHandle
    /\ g_is_drawn_once = FALSE
    /\ timeout_id = NoHandle
    /\ raf_callbacks = {}
    /\ timers = {}
    /\ started = FALSE

InitObservation ==
    /\ op = "load"
    /\ fx = NoFx
    /\ stopped_by = "none"
    /\ epoch_clean = TRUE
    /\ epoch_frames = 0
    /\ reset_frames = 0
    /\ reset_draws = 0
    /\ elapsed = RESIZE_DELAY
    /\ burst_events = 0
    /\ burst_fires = 0

Init ==
    /\ \E size \in WindowSizes, rnd \in RandomDraws, debug \in BOOLEAN :
           InitProgram(size, rnd[1], rnd[2], debug)
    /\ InitObservation
    /\ gen_args = NoCall
    /\ gen_out = NoCall
    /\ fn_args = NoCall
    /\ fn_out = NoCall

\* ------------------------------------------------------------------------
\* ACTIONS

\* main(), on DOMContentLoaded: the resize listener is added and the loop started.
Main ==
    /\ ~started
    /\ \E r \in {animate(G, g_field_instance)} :
           /\ Becomes(r)
           /\ stopped_by' = AfterStart(r)
           /\ epoch_frames' = r.fx.frames
           /\ reset_frames' = r.fx.frames
           /\ reset_draws' = r.fx.field_draws
    /\ started' = TRUE
    /\ op' = "main"
    /\ epoch_clean' = TRUE
    /\ UNCHANGED <<elapsed, burst_events, burst_fires, gen_vars>>

\* The host runs a pending animation-frame callback, () => animate(ff).
Frame ==
    /\ started
    /\ \E cb \in raf_callbacks :
           \E r \in {animate([G EXCEPT !.raf_callbacks = @ \ {cb}], cb.ff)} :
               /\ Becomes(r)
               /\ stopped_by' = (IF r.fx.hit_limit THEN "limit" ELSE stopped_by)
               /\ epoch_frames' = (IF epoch_clean
                                   THEN SatAdd(epoch_frames, r.fx.frames, FrameCap)
                                   ELSE 0)
               /\ reset_frames' = SatAdd(reset_frames, r.fx.frames, 2)
               /\ reset_draws' = SatAdd(reset_draws, r.fx.field_draws, 2)
    /\ op' = "frame"
    /\ UNCHANGED <<started, epoch_clean, elapsed, burst_events, burst_fires, gen_vars>>

\* The window is resized: the resize listener, handle_resize, runs.
WindowResize ==
    /\ started
    /\ \E size \in WindowSizes :
           \E r \in {handle_resize([G EXCEPT !.innerWidth = size[1] * Q,
                                               !.innerHeight = size[2] * Q])} :
               Becomes(r)
    /\ op' = "resize"
    /\ epoch_clean' = FALSE
    /\ elapsed' = 0
    /\ burst_events' = (IF burst_fires > 0 THEN 1 ELSE SatAdd(burst_events, 1, 2))
    /\ burst_fires' = 0
    /\ epoch_frames' = 0
    /\ UNCHANGED <<started, stopped_by, reset_frames, reset_draws, gen_vars>>

\* A timer of the debounced resize handler is due: its callback runs reset_all.
ResizeFire ==
    /\ \E t \in timers :
           /\ t.remaining = 0
           /\ \E rnd \in RandomDraws :
                  \E r \in {reset_all([G EXCEPT !.timers = @ \ {t}], rnd[1], rnd[2])} :
                      Becomes(r)
    /\ op' = "resize_fire"
    /\ epoch_clean' = (started /\ stopped_by = "none")
    /\ reset_frames' = 0
    /\ reset_draws' = 0
    /\ burst_fires' = SatAdd(burst_fires, 1, 2)
    /\ epoch_frames' = 0
    /\ UNCHANGED <<started, stopped_by, elapsed, burst_events, gen_vars>>

\* Time passes, up to the next due timer: a due timer runs before time moves on.
\* With no timer pending the passing of time changes nothing.
Tick ==
    /\ \A t \in timers : t.remaining > 0
    /\ timers # {}
    /\ LET d == IF \E t \in timers : t.remaining < TimeStep
                THEN CHOOSE m \in {t.remaining : t \in timers} :
                         \A t \in timers : m <= t.remaining
                ELSE TimeStep
       IN  /\ timers' = {[t EXCEPT !.remaining = @ - d] : t \in timers}
           /\ elapsed' = SatAdd(elapsed, d, RESIZE_DELAY)
    /\ UNCHANGED <<DEBUG, innerWidth, innerHeight, canvas_width, canvas_height, g_particle,
                   g_closest_points_map, g_cur_field_pattern, g_field_instance, g_scale,
                   g_canvas_width, g_canvas_height, g_cell_count, g_frame_tick,
                   g_frame_tick_animation_is_paused, g_closest_point,
                   g_animation_frame_id_handle, g_is_drawn_once, timeout_id, raf_callbacks,
                   started, op, fx, stopped_by, epoch_clean, epoch_frames, reset_frames,
                   reset_draws, burst_events, burst_fires, gen_vars>>

\* The click listener of stop_animation_toggle.
StopClick ==
    /\ started
    /\ \E r \in {stop_animation(G, g_animation_frame_id_handle)} : Becomes(r)
    /\ op' = "stop"
    /\ stopped_by' = (IF stopped_by = "none" THEN "user" ELSE stopped_by)
    /\ epoch_clean' = FALSE
    /\ epoch_frames' = 0
    /\ UNCHANGED <<started, reset_frames, reset_draws, elapsed, burst_events,
                   burst_fires, gen_vars>>

\* The click listener of reload_animation_toggle.
ReloadClick ==
    /\ started
    /\ \E rnd \in RandomDraws :
           \E r \in {reload_click(G, rnd[1], rnd[2])} :
               /\ Becomes(r)
               /\ stopped_by' = AfterStart(r)
               /\ epoch_frames' = r.fx.frames
               /\ reset_frames' = r.fx.frames
               /\ reset_draws' = r.fx.field_draws
    /\ op' = "reload"
    /\ epoch_clean' = TRUE
    /\ UNCHANGED <<started, elapsed, burst_events, burst_fires, gen_vars>>

\* The click listener of shuffle_field_toggle.  The tick is kept finite: no shuffle
\* once repeated shuffles have pushed it MaxOverrun past the limit.
ShuffleClick ==
    /\ started
    /\ g_frame_tick <= g_frame_tick_limit + MaxOverrun
    /\ \E rand_num \in RejectionSample(FindIndex(E_FIELD_PATTERNS, g_cur_field_pattern),
                                       Len(E_FIELD_PATTERNS)) :
           \E r \in {handle_shuffle_field_pattern(G, rand_num)} :
               /\ Becomes(r)
               /\ stopped_by' = AfterStart(r)
               /\ epoch_frames' = 0
               /\ reset_frames' = r.fx.frames
               /\ reset_draws' = r.fx.field_draws
    /\ op' = "shuffle"
    /\ epoch_clean' = FALSE
    /\ elapsed' = 0
    /\ burst_events' = (IF burst_fires > 0 THEN 1 ELSE SatAdd(burst_events, 1, 2))
    /\ burst_fires' = 0
    /\ UNCHANGED <<started, gen_vars>>

Next ==
    \/ Main
    \/ Frame
    \/ WindowResize
    \/ ResizeFire
    \/ Tick
    \/ StopClick
    \/ ReloadClick
    \/ ShuffleClick

Spec == Init /\ [][Next]_vars

\* ------------------------------------------------------------------------
\* THE PAUSE FLAG.  The script declares g_frame_tick_animation_is_paused and reads
\* it in animate(), and never assigns it: in SpecPause the embedding page does.

SetPaused ==
    /\ started
    /\ g_frame_tick_animation_is_paused' = ~g_frame_tick_animation_is_paused
    /\ op' = "set_paused"
    /\ UNCHANGED <<DEBUG, innerWidth, innerHeight, canvas_width, canvas_height, g_particle,
                   g_closest_points_map, g_cur_field_pattern, g_field_instance, g_scale,
                   g_canvas_width, g_canvas_height, g_cell_count, g_frame_tick,
                   g_closest_point, g_animation_frame_id_handle, g_is_drawn_once,
                   timeout_id, raf_callbacks, timers, started, fx, stopped_by, epoch_clean,
                   epoch_frames, reset_frames, reset_draws, elapsed, burst_events,
                   burst_fires, gen_vars>>

NextPause == Next \/ SetPaused

SpecPause == Init /\ [][NextPause]_vars

\* ------------------------------------------------------------------------
\* THE GENERATOR ALONE: new FlowField(cols, rows, steps, pattern) on drawn arguments.

\* The sides of the field the generator is tried with.
GenShapes == {g_field_shape, 4 * Q, 10 * Q}

\* A value that is no key of E_FIELD_PATTERNS.
UnknownPattern == "SPIRAL"

GenInputs ==
    [cols : GenShapes, rows : GenShapes, steps : 1..(2 ^ MaxStepsLog2),
     pattern : PatternNames \cup {UnknownPattern}]

InitGen ==
    /\ \E debug \in BOOLEAN :
           InitProgram(CHOOSE size \in WindowSizes : TRUE,
                       (CHOOSE rnd \in RandomDraws : TRUE)[1],
                       (CHOOSE rnd \in RandomDraws : TRUE)[2], debug)
    /\ InitObservation
    /\ gen_args \in GenInputs
    /\ gen_out = NoCall
    /\ fn_args = NoCall
    /\ fn_out = NoCall

\* g_field_instance = new FlowField(...): no assignment when the constructor throws.
assign_field_instance(s, result) ==
    IF result.threw THEN s ELSE [s EXCEPT !.g_field_instance = result.value]

Generate ==
    /\ gen_out = NoCall
    /\ \E result \in {FlowField(gen_args.cols, gen_args.rows, gen_args.steps,
                                 gen_args.pattern, DEBUG)} :
           /\ Becomes(assign_field_instance(G, result))
           /\ gen_out' = [called |-> TRUE, result |-> result]
    /\ UNCHANGED <<started, op, stopped_by, epoch_clean, epoch_frames, reset_frames,
                   reset_draws, elapsed, burst_events, burst_fires, gen_args, fn_args,
                   fn_out>>

\* The coordinates of every point are numbers (no sample was missing).
HasCoordinates(data) == {n \in 1..Len(data) : ~(IsNum(data[n].x) /\ IsNum(data[n].y))} = {}

\* One lookup in the generated field, at the coordinates of one of its points.
Lookup ==
    /\ gen_out.called
    /\ ~gen_out.result.threw
    /\ fn_args = NoCall
    /\ HasCoordinates(g_field_instance.field)
    /\ \E k \in 1..Len(g_field_instance.field), with_manhattan_distance \in BOOLEAN :
           LET x == g_field_instance.field[k].x
               y == g_field_instance.field[k].y
           IN  \E got \in {get_flow_vector_at_position(G, x, y, g_field_instance.field,
                                                        with_manhattan_distance)} :
                   /\ Becomes(got.s)
                   /\ fn_args' = [called |-> TRUE, fn |-> "lookup", k |-> k, x |-> x,
                                  y |-> y,
                                  with_manhattan_distance |-> with_manhattan_distance]
                   /\ fn_out' = Return(got.flow_vec)
    /\ UNCHANGED <<started, op, stopped_by, epoch_clean, epoch_frames, reset_frames,
                   reset_draws, elapsed, burst_events, burst_fires, gen_args, gen_out>>

\* Query coordinates off the sample points: between two samples, at equal distance
\* from two of them, and beyond the last one.
LookupQueries == {0, 1000, 1500, 2500, 12000}

\* One lookup in the generated field at a position drawn from LookupQueries.
LookupAt ==
    /\ gen_out.called
    /\ ~gen_out.result.threw
    /\ fn_args = NoCall
    /\ HasCoordinates(g_field_instance.field)
    /\ \E x \in LookupQueries, y \in LookupQueries, with_manhattan_distance \in BOOLEAN :
           \E got \in {get_flow_vector_at_position(G, x, y, g_field_instance.field,
                                                    with_manhattan_distance)} :
               /\ Becomes(got.s)
               /\ fn_args' = [called |-> TRUE, fn |-> "lookup_at", k |-> 0, x |-> x,
                              y |-> y,
                              with_manhattan_distance |-> with_manhattan_distance]
               /\ fn_out' = Return(got.flow_vec)
    /\ UNCHANGED <<started, op, stopped_by, epoch_clean, epoch_frames, reset_frames,
                   reset_draws, elapsed, burst_events, burst_fires, gen_args, gen_out>>

NextGen == Generate \/ Lookup \/ LookupAt

SpecGen == InitGen /\ [][NextGen]_vars

\* ------------------------------------------------------------------------
\* THE ADVECTOR ALONE: one call of update_particle_via_field on drawn arguments.

\* Flow vectors of the one-point fields: none, small, and large enough to carry the
\* particle one pixel past an edge, or more than a canvas width below 0.
AdvectVectors == {0, 1000, 90910, -90910, -818182}

\* Particle coordinates: an edge of the canvas, inside it, the other edge.
AdvectXs == {0, 3000, 8000}
AdvectYs == {0, 2500, 6000}

AdvectInputs ==
    [x : AdvectXs, y : AdvectYs, u : AdvectVectors, v : {0, 90910, -90910},
     is_lerped : BOOLEAN, t_interpolate : {0, 950, Q}]

InitAdvect ==
    /\ InitProgram(<<8, 6>>, 0, 0, FALSE)
    /\ InitObservation
    /\ gen_args = NoCall
    /\ gen_out = NoCall
    /\ fn_args \in AdvectInputs
    /\ fn_out = NoCall

\* update_particle_via_field(g_particle, data, is_lerped, t_interpolate) with the
\* particle at (x, y) and data a field of one point carrying (u, v).
Advect ==
    /\ fn_out = NoCall
    /\ LET data == <<[x |-> 0, y |-> 0, u |-> fn_args.u, v |-> fn_args.v]>>
           before == [G EXCEPT !.g_particle.x = fn_args.x, !.g_particle.y = fn_args.y]
       IN  \E r \in {update_particle_via_field(before, data, fn_args.is_lerped,
                                               fn_args.t_interpolate)} :
               /\ Becomes(r)
               /\ fn_out' = Return([unwrapped |->
                                       advect_particle(before, data, fn_args.is_lerped,
                                                       fn_args.t_interpolate).g_particle])
    /\ UNCHANGED <<started, op, stopped_by, epoch_clean, epoch_frames, reset_frames,
                   reset_draws, elapsed, burst_events, burst_fires, gen_args, gen_out,
                   fn_args>>

NextAdvect == Advect

SpecAdvect == InitAdvect /\ [][NextAdvect]_vars

\* ------------------------------------------------------------------------
\* THE INTERPOLATION HELPERS ALONE: one call of Utils.lerp or Utils.inv_lerp.

\* Interval bounds: numbers of either sign, and Infinity.
LerpValues == {0, 1000, -2500, g_field_shape, Infinity}

LerpInputs ==
    [called : {TRUE}, fn : {"lerp"}, a : LerpValues, b : LerpValues, c : {0, 500, Q}]

\* Bounds and value of inv_lerp: equal and distinct bounds, and NaN.
InvLerpInputs ==
    [called : {TRUE}, fn : {"inv_lerp"}, a : {0, 1000, -2500, NaN},
     b : {0, 1000, -2500, NaN}, c : {0, 500, 1000}]

InitUtils ==
    /\ InitProgram(<<8, 6>>, 0, 0, FALSE)
    /\ InitObservation
    /\ gen_args = NoCall
    /\ gen_out = NoCall
    /\ fn_args \in LerpInputs \cup InvLerpInputs
    /\ fn_out = NoCall

\* Utils.lerp(a, b, t) with t = c.
CallLerp ==
    /\ fn_out = NoCall
    /\ fn_args.fn = "lerp"
    /\ fn_out' = Return(lerp(fn_args.a, fn_args.b, fn_args.c))
    /\ UNCHANGED <<prog_vars, obs_vars, gen_args, gen_out, fn_args>>

\* Utils.inv_lerp(a, b, value) with value = c.
CallInvLerp ==
    /\ fn_out = NoCall
    /\ fn_args.fn = "inv_lerp"
    /\ fn_out' = inv_lerp(fn_args.a, fn_args.b, fn_args.c)
    /\ UNCHANGED <<prog_vars, obs_vars, gen_args, gen_out, fn_args>>

NextUtils == CallLerp \/ CallInvLerp

SpecUtils == InitUtils /\ [][NextUtils]_vars

\* ------------------------------------------------------------------------
\* PROPERTIES OF THE SCHEDULER (under Spec)

Stopped == started /\ stopped_by # "none"

\* C1: from a start or reset (tick = 1) with tick_limit = N and no stop, reload,
\* shuffle or resize since, the frames executed so far number at most N, the last one
\* worked with tick = (frames so far) + 1, so the ticks of the work are 2..N+1; a
\* frame is pending exactly while fewer than N frames have run, and the scheduler is
\* Stopped by the limit exactly when N frames have run, with no frame requested.
C1_ExactlyLimitFrames ==
    (started /\ epoch_clean) =>
        /\ epoch_frames <= g_frame_tick_limit
        /\ g_frame_tick = epoch_frames + 1
        /\ (epoch_frames > 0 => fx.work_tick = epoch_frames + 1)
        /\ (stopped_by = "limit" <=> epoch_frames = g_frame_tick_limit)
        /\ (epoch_frames < g_frame_tick_limit => Cardinality(raf_callbacks) = 1)
        /\ (epoch_frames = g_frame_tick_limit => raf_callbacks = {})

C1_Witness ==
    /\ started /\ epoch_clean
    /\ op = "frame"
    /\ epoch_frames = g_frame_tick_limit
    /\ fx.work_tick = g_frame_tick_limit + 1
    /\ stopped_by = "limit"
    /\ raf_callbacks = {}

\* C2: Stopped is terminal.  In a Stopped state no frame is pending, so none can be
\* executed and the tick cannot be incremented; the stop command, a resize event and
\* a resize firing execute no frame, request none and leave the scheduler Stopped;
\* only the reload and shuffle commands execute a frame from a Stopped state.
C2_StoppedIsTerminal ==
    /\ Stopped => raf_callbacks = {}
    /\ op \in {"stop", "resize", "resize_fire"} =>
           /\ fx.frames = 0
           /\ fx.work_tick = 0
           /\ ~fx.hit_limit
    /\ (op = "stop" /\ started) => Stopped
    /\ (Stopped /\ op = "frame") => fx.hit_limit

C2_Witness ==
    /\ Stopped
    /\ stopped_by = "limit"
    /\ op = "resize_fire"
    /\ g_frame_tick = 1
    /\ raf_callbacks = {}

\* C3: the pattern active after handle_shuffle_field_pattern is one of the four named
\* patterns and differs from the pattern active immediately before the call.
C3_ShuffleChangesPattern ==
    op = "shuffle" =>
        /\ fx.shuffled_from \in PatternNames
        /\ g_cur_field_pattern \in PatternNames
        /\ g_cur_field_pattern # fx.shuffled_from
        /\ g_field_instance.pattern = g_cur_field_pattern

C3_Witness ==
    /\ op = "shuffle"
    /\ fx.shuffled_from = "CLOCKWISE"
    /\ g_cur_field_pattern = "SINUSOIDAL"
    /\ g_field_instance.pattern = "SINUSOIDAL"

\* C4: the first frame executed after a shuffle starts from tick = 1, so its work
\* runs as tick 2, with the field-rendered flag cleared, so it draws the static field
\* of the new pattern.  (The frame in question runs inside the shuffle handler.)
C4_ShuffleResetsBeforeFirstFrame ==
    op = "shuffle" =>
        /\ fx.frames = 1
        /\ fx.work_tick = 2
        /\ fx.field_draws = 1
        /\ fx.drawn_pattern = g_cur_field_pattern

\* C5: a shuffle command issued while the scheduler is Stopped by the tick limit
\* puts it back in Running, with the next frame requested.
C5_ShuffleRestartsAfterLimit ==
    [][(started /\ stopped_by = "limit" /\ op' = "shuffle" /\ ShuffleClick) =>
          /\ stopped_by' = "none"
          /\ raf_callbacks' # {}]_vars

\* ------------------------------------------------------------------------
\* PROPERTIES OF THE RESIZE TRANSITION (under Spec)

\* C6: resize is debounced.  While a burst of resize events is pending exactly one
\* timer is armed, due one delay after the last event; when reset_all runs for the
\* burst, a full delay has passed since the last event, it is the first run for this
\* burst and no timer of the burst is left to run it again.
C6_ResizeDebounced ==
    /\ burst_fires <= 1
    /\ (burst_events > 0 /\ burst_fires = 0) =>
           /\ Cardinality(timers) = 1
           /\ \A t \in timers : t.remaining = RESIZE_DELAY - elapsed
    /\ op = "resize_fire" =>
           /\ elapsed = RESIZE_DELAY
           /\ burst_fires = 1
           /\ fx.resets = 1
           /\ timers = {}

C6_Witness ==
    /\ op = "resize_fire"
    /\ burst_events = 2
    /\ burst_fires = 1
    /\ fx.resets = 1

\* C7: when the resize transition fires it establishes, in one step in which no
\* frame runs: scale factor = new canvas width / field shape, the particle inside
\* the canvas, tick = 1, an empty lookup cache and field-rendered flag = false.
C7_ResizeFireEstablishes ==
    op = "resize_fire" =>
        /\ fx.frames = 0
        /\ canvas_width = innerWidth
        /\ g_scale = FxDiv(canvas_width, g_field_shape)
        /\ 0 <= g_particle.x /\ g_particle.x < canvas_width
        /\ 0 <= g_particle.y /\ g_particle.y < canvas_height
        /\ g_frame_tick = 1
        /\ g_closest_points_map = << >>
        /\ ~g_is_drawn_once

C7_Witness ==
    /\ op = "resize_fire"
    /\ raf_callbacks # {}
    /\ canvas_width = 6 * Q
    /\ g_scale = FxDiv(6 * Q, g_field_shape)
    /\ g_particle.x > 0

\* C8: the static field is drawn exactly once per reset epoch: since the last reset
\* (start, resize firing, reload, shuffle) it was drawn in the first frame executed
\* after the reset and in no later frame.
C8_FieldDrawnOncePerEpoch ==
    started =>
        /\ reset_frames = 0 => reset_draws = 0
        /\ reset_frames >= 1 => reset_draws = 1

\* ------------------------------------------------------------------------
\* PROPERTY OF THE PAUSE FLAG (under SpecPause)

\* C9: while the Paused flag is set a frame callback that comes due executes no frame
\* work and does not change the tick, and the loop remains scheduled: a frame is
\* still pending after it, so that frames resume once the flag is cleared.
C9_PausedKeepsLoopScheduled ==
    [][(g_frame_tick_animation_is_paused /\ op' = "frame" /\ Frame) =>
          /\ fx'.frames = 0
          /\ g_frame_tick' = g_frame_tick
          /\ raf_callbacks' # {}]_vars

\* ------------------------------------------------------------------------
\* PROPERTY OF THE GENERATOR (under SpecGen)

\* C10: for every steps that is a power of two, with cols = rows and any of the four
\* patterns, the constructor returns a field of exactly steps * steps points.
C10_FieldHasStepsSquaredPoints ==
    (/\ gen_out.called
     /\ IsPow2(gen_args.steps)
     /\ gen_args.cols = gen_args.rows
     /\ gen_args.pattern \in PatternNames) =>
        /\ ~gen_out.result.threw
        /\ Len(gen_out.result.value.field) = gen_args.steps * gen_args.steps

C10_Witness ==
    /\ gen_out.called
    /\ DEBUG
    /\ gen_args.steps = 2 ^ MaxStepsLog2
    /\ gen_args.cols = g_field_shape
    /\ gen_args.rows = g_field_shape
    /\ gen_args.pattern = "CLOCKWISE"
    /\ ~gen_out.result.threw
    /\ Len(gen_out.result.value.field) = (2 ^ MaxStepsLog2) * (2 ^ MaxStepsLog2)

\* The call of the constructor returned a field.
Generated == gen_out.called /\ ~gen_out.result.threw

\* C11: the generated points are the cross product of the samples 0, step, ...,
\* (steps - 1) * step with themselves (step = rows / steps), row-major: the point at
\* index i * steps + j has x = j * step and y = i * step, and no coordinate pair
\* appears twice.
C11_PointsAreCrossProduct ==
    (Generated /\ gen_args.cols = gen_args.rows) =>
        LET field  == gen_out.result.value.field
            nsteps == gen_args.steps
            step   == TruncDiv(gen_args.rows, nsteps)
        IN  /\ Len(field) = nsteps * nsteps
            /\ \A i, j \in 0..(nsteps - 1) :
                   /\ field[i * nsteps + j + 1].x = j * step
                   /\ field[i * nsteps + j + 1].y = i * step
            /\ \A a, b \in 1..Len(field) :
                   (field[a].x = field[b].x /\ field[a].y = field[b].y) => a = b

C11_Witness ==
    /\ Generated
    /\ gen_args.steps = 2 ^ MaxStepsLog2
    /\ gen_args.cols = g_field_shape
    /\ gen_args.rows = g_field_shape
    /\ gen_out.result.value.field[gen_args.steps + 3].x = 2 * TruncDiv(g_field_shape, gen_args.steps)
    /\ gen_out.result.value.field[gen_args.steps + 3].y = TruncDiv(g_field_shape, gen_args.steps)

\* C12: field generation called with a steps value that is no positive power of two,
\* or with cols # rows, aborts with an error and produces no field, whether or not
\* the debug flag is on.
C12_BadArgumentsAbort ==
    (gen_out.called /\ (~IsPow2(gen_args.steps) \/ gen_args.cols # gen_args.rows)) =>
        gen_out.result.threw

\* C13: evaluating a pattern value other than the four named ones fails with an
\* error: no field is produced and the field installed before stays in place.
C13_UnknownPatternFails ==
    (gen_out.called /\ gen_args.pattern \notin PatternNames) =>
        /\ gen_out.result.threw
        /\ gen_out.result.error = "TypeError"
               \/ (DEBUG /\ gen_out.result.error = "AssertionError")
        /\ g_field_instance = NewFlowField[DEBUG]["SINUSOIDAL"].value

C13_Witness ==
    /\ gen_out.called
    /\ gen_args.pattern = UnknownPattern
    /\ gen_args.steps = 2
    /\ gen_args.cols = gen_args.rows
    /\ gen_out.result.threw
    /\ gen_out.result.error = "TypeError"
    /\ g_field_instance.pattern = "SINUSOIDAL"

\* C18: every generated point carries the flow vector the pattern table prescribes
\* for its own coordinates: SINUSOIDAL u = sin(y), v = cos(x); INVERSE_SINUSOIDAL
\* u = cos(x), v = sin(y); CLOCKWISE u = -sqrt(y * k), v = sqrt(x * k); ANTI_CLOCKWISE
\* u = sqrt(y * k), v = sqrt(x * k), with k = PHI_INV * PI_INV.
C18_VectorsFollowPatternTable ==
    Generated =>
        \A n \in 1..Len(gen_out.result.value.field) :
            LET p == gen_out.result.value.field[n]
            IN  CASE gen_args.pattern = "SINUSOIDAL" ->
                        p.u = MathSin(p.y) /\ p.v = MathCos(p.x)
                  [] gen_args.pattern = "INVERSE_SINUSOIDAL" ->
                        p.u = MathCos(p.x) /\ p.v = MathSin(p.y)
                  [] gen_args.pattern = "CLOCKWISE" ->
                        p.u = Neg(SqrtScaled(p.y)) /\ p.v = SqrtScaled(p.x)
                  [] gen_args.pattern = "ANTI_CLOCKWISE" ->
                        p.u = SqrtScaled(p.y) /\ p.v = SqrtScaled(p.x)
                  [] OTHER -> FALSE

\* The second point of the second row of a clockwise field: u < 0 < v.
C18_Witness ==
    /\ Generated
    /\ gen_args.pattern = "CLOCKWISE"
    /\ gen_args.steps = 2 ^ MaxStepsLog2
    /\ gen_args.cols = gen_args.rows
    /\ gen_out.result.value.field[gen_args.steps + 3].u < 0
    /\ gen_out.result.value.field[gen_args.steps + 3].v > 0
    /\ gen_out.result.value.field[gen_args.steps + 3].x # gen_out.result.value.field[gen_args.steps + 3].y

\* C14: the lookup is exact at sample points: queried at the coordinates of a point
\* p of the generated field it returns (p.u, p.v) and records p itself as the
\* matched point, at distance 0, under both metrics.
C14_LookupExactAtSamples ==
    (fn_args.called /\ fn_args.fn = "lookup") =>
        LET p == g_field_instance.field[fn_args.k]
        IN  /\ ~fn_out.threw
            /\ fn_out.value = [u |-> p.u, v |-> p.v]
            /\ g_closest_point = p
            /\ Distance(fn_args.x, fn_args.y, g_closest_point,
                        fn_args.with_manhattan_distance) = 0

\* The last point of a field of the largest size, under the Euclidean metric.
C14_Witness ==
    /\ fn_args.called
    /\ fn_args.fn = "lookup"
    /\ ~fn_args.with_manhattan_distance
    /\ gen_args.steps = 2 ^ MaxStepsLog2
    /\ fn_args.k = gen_args.steps * gen_args.steps
    /\ fn_args.x > 0
    /\ g_closest_point.x = fn_args.x
    /\ g_closest_point.y = fn_args.y

\* A lookup has been made, at a sample point or elsewhere.
LookedUp == fn_args.called /\ fn_args.fn \in {"lookup", "lookup_at"}

\* C24: the lookup returns the vector of a nearest point, the earliest of the nearest
\* ones in field order: the matched point is the point at some index n of the field,
\* no point is nearer to the query than it, every point before n is strictly farther,
\* and the vector returned is its (u, v); under the Euclidean and the Manhattan metric.
C24_LookupReturnsFirstNearest ==
    LookedUp =>
        LET data == g_field_instance.field
            d(n) == Distance(fn_args.x, fn_args.y, data[n], fn_args.with_manhattan_distance)
        IN  /\ ~fn_out.threw
            /\ \E n \in 1..Len(data) :
                   /\ g_closest_point = data[n]
                   /\ fn_out.value = [u |-> data[n].u, v |-> data[n].v]
                   /\ \A j \in 1..Len(data) : d(n) <= d(j)
                   /\ \A j \in 1..(n - 1) : d(j) > d(n)

\* A query off the sample points, at equal Euclidean distance from the matched point
\* and from another point of the field.
C24_Witness ==
    /\ LookedUp
    /\ fn_args.fn = "lookup_at"
    /\ Len(g_field_instance.field) > 1
    /\ \E j \in 1..Len(g_field_instance.field) :
           /\ g_field_instance.field[j] # g_closest_point
           /\ Distance(fn_args.x, fn_args.y, g_field_instance.field[j],
                       fn_args.with_manhattan_distance)
                  = Distance(fn_args.x, fn_args.y, g_closest_point,
                             fn_args.with_manhattan_distance)
    /\ Distance(fn_args.x, fn_args.y, g_closest_point, fn_args.with_manhattan_distance) > 0
    /\ ~fn_args.with_manhattan_distance

\* ------------------------------------------------------------------------
\* PROPERTIES OF THE ADVECTOR (under SpecAdvect)

Advected == fn_out # NoCall /\ ~fn_out.threw

\* The force term of an axis: flow vector * resistance, resistance = scale * FPS_RESISTANCE.
ForceTerm(flow) == FxMul(flow, FxMul(g_scale, FPS_RESISTANCE))

\* C15 as stated: the position update is a position-replacement blend: with t = 0
\* the coordinate is unchanged, with t = 1 it becomes exactly the force term (before
\* the wrap step).
C15_BlendReplacesPosition ==
    (Advected /\ fn_args.is_lerped) =>
        /\ fn_args.t_interpolate = 0 =>
               /\ fn_out.value.unwrapped.x = fn_args.x
               /\ fn_out.value.unwrapped.y = fn_args.y
        /\ fn_args.t_interpolate = Q =>
               /\ fn_out.value.unwrapped.x = ForceTerm(g_closest_point.u)
               /\ fn_out.value.unwrapped.y = ForceTerm(g_closest_point.v)

\* C15 as amended: the blend is added to the coordinate: with t = 0 the coordinate
\* grows by its field-space value, coordinate / scale factor, and with t = 1 it
\* grows by exactly the force term (before the wrap step).
C15_BlendIsAddedToPosition ==
    (Advected /\ fn_args.is_lerped) =>
        /\ fn_args.t_interpolate = 0 =>
               /\ fn_out.value.unwrapped.x = fn_args.x + FxDiv(fn_args.x, g_scale)
               /\ fn_out.value.unwrapped.y = fn_args.y + FxDiv(fn_args.y, g_scale)
        /\ fn_args.t_interpolate = Q =>
               /\ fn_out.value.unwrapped.x = fn_args.x + ForceTerm(g_closest_point.u)
               /\ fn_out.value.unwrapped.y = fn_args.y + ForceTerm(g_closest_point.v)

C15_Witness ==
    /\ Advected
    /\ fn_args.is_lerped
    /\ fn_args.t_interpolate = Q
    /\ fn_args.x = 3000
    /\ ForceTerm(g_closest_point.u) = 11
    /\ fn_out.value.unwrapped.x = 3011

\* C16: after the position update each axis is wrapped on its own and once: a
\* coordinate below 0 gets the canvas extent added, one above the extent gets it
\* subtracted, one in [0, extent] is unchanged; x = extent + 1 becomes x = 1.
C16_WrapOncePerAxis ==
    Advected =>
        LET un == fn_out.value.unwrapped
        IN  /\ un.x < 0 => g_particle.x = un.x + g_canvas_width
            /\ un.x > g_canvas_width => g_particle.x = un.x - g_canvas_width
            /\ (0 <= un.x /\ un.x <= g_canvas_width) => g_particle.x = un.x
            /\ un.y < 0 => g_particle.y = un.y + g_canvas_height
            /\ un.y > g_canvas_height => g_particle.y = un.y - g_canvas_height
            /\ (0 <= un.y /\ un.y <= g_canvas_height) => g_particle.y = un.y
            /\ un.x = g_canvas_width + Q => g_particle.x = Q

\* x one pixel past the right edge, y one pixel above the top edge.
C16_Witness ==
    /\ Advected
    /\ fn_out.value.unwrapped.x = g_canvas_width + Q
    /\ g_particle.x = Q
    /\ fn_out.value.unwrapped.y = -Q
    /\ g_particle.y = g_canvas_height - Q

\* C27: one call of update_particle_via_field changes the particle's x and y and the
\* recorded last-matched point, and nothing else: the particle keeps its speed and
\* size and gains no field, and the Field, the scale factor, the canvas extents, the
\* tick, the current pattern, the field-rendered flag, the cache and the pending
\* frames and timers are as before the call.  (tick_limit is a constant.)
C27_AdvectionChangesOnlyPosition ==
    [][/\ DOMAIN g_particle' = DOMAIN g_particle
       /\ g_particle'.speed = g_particle.speed
       /\ g_particle'.size = g_particle.size
       /\ UNCHANGED <<g_field_instance, g_scale, g_canvas_width, g_canvas_height,
                      canvas_width, canvas_height, innerWidth, innerHeight, g_cell_count,
                      g_frame_tick, g_cur_field_pattern, g_is_drawn_once,
                      g_closest_points_map, g_frame_tick_animation_is_paused,
                      g_animation_frame_id_handle, timeout_id, raf_callbacks, timers>>]_vars

\* A call that moved the particle on both axes and recorded the matched point.
C27_Witness ==
    /\ Advected
    /\ g_particle.x # fn_args.x
    /\ g_particle.y # fn_args.y
    /\ g_closest_point = [x |-> 0, y |-> 0, u |-> fn_args.u, v |-> fn_args.v]
    /\ g_particle.speed = Q
    /\ g_frame_tick = 1

\* ------------------------------------------------------------------------
\* PROPERTIES OF THE INTERPOLATION HELPERS (under SpecUtils)

Returned(fn) == fn_out # NoCall /\ fn_args.fn = fn

\* C17: for all a and b, lerp(a, b, 0) is a exactly and lerp(a, b, 1) is b exactly.
C17_LerpBoundaryLaw ==
    Returned("lerp") =>
        /\ ~fn_out.threw
        /\ fn_args.c = 0 => fn_out.value = fn_args.a
        /\ fn_args.c = Q => fn_out.value = fn_args.b

C17_Witness ==
    /\ Returned("lerp")
    /\ fn_args.c = Q
    /\ fn_args.a = -2500
    /\ fn_args.b = g_field_shape
    /\ fn_out.value = g_field_shape

\* C20 as stated: inverse interpolation called with equal interval bounds raises no
\* error and returns a NaN or Infinity value.
C20_EqualBoundsGiveNaN ==
    (Returned("inv_lerp") /\ StrictEquals(fn_args.a, fn_args.b)) =>
        /\ ~fn_out.threw
        /\ fn_out.value \in {NaN, Infinity}

\* C20 as amended: inverse interpolation called with equal interval bounds raises an
\* error and returns no value; with distinct bounds it raises none.
C20_EqualBoundsThrow ==
    Returned("inv_lerp") =>
        /\ StrictEquals(fn_args.a, fn_args.b) =>
               (fn_out.threw /\ fn_out.error = "Error")
        /\ ~StrictEquals(fn_args.a, fn_args.b) => ~fn_out.threw

C20_Witness ==
    /\ Returned("inv_lerp")
    /\ fn_args.a = 1000
    /\ fn_args.b = 1000
    /\ fn_args.c = 500
    /\ fn_out.threw

\* ------------------------------------------------------------------------
\* PROPERTY OF THE LOOKUP CACHE (under Spec)

C21_ReloadResetsAndRestarts ==
    /\ op = "reload" =>
           /\ fx.resets = 1
           /\ fx.frames = 1
           /\ fx.work_tick = 2
           /\ fx.field_draws = 1
           /\ g_frame_tick = 2
           /\ g_is_drawn_once
           /\ g_closest_points_map = << >>
           /\ \E rnd \in RandomDraws :
                  g_particle = update_particle_via_field(
                                   reset_all(G, rnd[1], rnd[2]),
                                   g_field_instance.field, TRUE, 950).g_particle
           /\ epoch_clean
           /\ epoch_frames = 1
           /\ Cardinality(raf_callbacks) = (IF g_frame_tick_limit > 1 THEN 1 ELSE 0)
           /\ \A cb \in raf_callbacks :
                  cb.id = g_animation_frame_id_handle /\ cb.ff = g_field_instance
    /\ (started /\ epoch_clean) =>
           /\ epoch_frames <= g_frame_tick_limit
           /\ (raf_callbacks = {} <=> epoch_frames = g_frame_tick_limit)
           /\ (stopped_by = "none" <=> epoch_frames < g_frame_tick_limit)

C21_Witness ==
    /\ op = "reload"
    /\ fx.resets = 1
    /\ fx.frames = 1
    /\ g_frame_tick = 2
    /\ timers # {}
    /\ Cardinality(raf_callbacks) = 1

\* C22: in every step the tick changes as the frames and resets of the step say: a
\* step that executes a frame adds exactly 1, a step that resets sets the tick to 1
\* (and to 2 when it also executes a frame), and a step that does neither, the
\* passing of time included, leaves the tick alone.  (tick_limit is assigned at
\* initialization only: g_frame_tick_limit is a constant here.)
C22_TickChangesByFramesAndResets ==
    [][/\ Tick => g_frame_tick' = g_frame_tick
       /\ ~Tick =>
              /\ fx'.frames \in {0, 1}
              /\ g_frame_tick' =
                     (IF fx'.resets > 0 THEN 1 ELSE g_frame_tick) + fx'.frames]_vars

C22_Witness ==
    /\ op = "shuffle"
    /\ fx.frames = 1
    /\ fx.resets = 0
    /\ g_frame_tick = g_frame_tick_limit + 1
    /\ fx.work_tick = g_frame_tick

\* C23: the debounce holds at most one pending reconfiguration.  At most one timer
\* is pending, it is the one armed last (its handle is the stored timeout_id and it
\* is due one delay after the last arming), so arming has cancelled the one before;
\* a resize event and a shuffle both leave exactly one timer, in the same slot; and
\* the timer that fires is never a cancelled one: it fires a full delay after the
\* last arming and leaves nothing pending.
C23_DebounceHoldsOneTimer ==
    /\ Cardinality(timers) <= 1
    /\ \A t \in timers :
           /\ t.id = timeout_id
           /\ t.remaining = RESIZE_DELAY - elapsed
    /\ op \in {"resize", "shuffle"} => Cardinality(timers) = 1
    /\ op = "resize_fire" =>
           /\ timers = {}
           /\ elapsed = RESIZE_DELAY
           /\ burst_fires = 1

C23_Witness ==
    /\ op = "shuffle"
    /\ innerWidth # canvas_width
    /\ burst_events = 2
    /\ elapsed = 0
    /\ Cardinality(timers) = 1
    /\ \A t \in timers : t.id = timeout_id /\ t.remaining = RESIZE_DELAY

\* C25: in every step that executes a frame, the point recorded by the frame's lookup
\* is defined and is a point of the current Field when the frame hands it to the
\* rendering (draw_particle reads it right after the advection), also when the step
\* has just reset it or replaced the Field; and it is the point whose (u, v) the
\* lookup returned: the particle has moved by the blend of that point's vector.
C25_RecordedPointIsTheMatch ==
    [][(~Tick /\ fx'.frames = 1) =>
          /\ g_closest_point' # UndefinedObject
          /\ g_closest_point' # Null
          /\ \E n \in 1..Len(g_field_instance'.field) :
                 g_field_instance'.field[n] = g_closest_point'
          /\ fx'.resets = 0 =>
                 /\ g_particle'.x =
                        Wrap(advect_axis(g_particle.x, FxDiv(g_particle.x, g_scale),
                                         ForceTerm(g_closest_point'.u), TRUE, 950),
                             g_canvas_width)
                 /\ g_particle'.y =
                        Wrap(advect_axis(g_particle.y, FxDiv(g_particle.y, g_scale),
                                         ForceTerm(g_closest_point'.v), TRUE, 950),
                             g_canvas_height)]_vars

\* The first frame after a shuffle that followed a resize firing: the reset had
\* cleared the recorded point and the shuffle has replaced the Field.
C25_Witness ==
    /\ op = "shuffle"
    /\ fx.frames = 1
    /\ g_frame_tick = 2
    /\ g_closest_point # UndefinedObject
    /\ \E n \in 1..Len(g_field_instance.field) : g_field_instance.field[n] = g_closest_point
    /\ g_field_instance.pattern # "SINUSOIDAL"

\* ------------------------------------------------------------------------
\* PROPERTIES OF THE FIELD AND OF THE PARTICLE (under Spec)

\* The installed Field is the generator's output for the script's shape and steps and
\* the current pattern, every pending frame will run on it, and the frame that ran
\* last, if the last handler ran one, advected against it.
FieldInstalled ==
    /\ g_field_instance.pattern = g_cur_field_pattern
    /\ g_field_instance = NewFlowField[DEBUG][g_cur_field_pattern].value
    /\ \A cb \in raf_callbacks : cb.ff = g_field_instance
    /\ fx.frames = 1 => fx.advected_pattern = g_cur_field_pattern

\* C26: the Field is never mutated and is replaced only by a pattern shuffle.  In
\* every state the installed Field is the unmodified output of the generator for the
\* current pattern; a step changes it only if it is a shuffle, and then cols, rows
\* and steps are kept and the pattern is the newly drawn one; and every frame that
\* runs or is pending after a shuffle uses the new Field.
C26_FieldReplacedOnlyByShuffle ==
    [][/\ FieldInstalled
       /\ FieldInstalled'
       /\ g_field_instance' # g_field_instance =>
              /\ op' = "shuffle"
              /\ fx'.shuffled_from = g_field_instance.pattern
              /\ g_field_instance'.pattern # g_field_instance.pattern
              /\ g_field_instance'.cols = g_field_instance.cols
              /\ g_field_instance'.rows = g_field_instance.rows
              /\ g_field_instance'.steps = g_field_instance.steps
              /\ fx'.frames = 1
              /\ fx'.advected_pattern = g_field_instance'.pattern
       /\ g_cur_field_pattern' # g_cur_field_pattern =>
              g_field_instance' # g_field_instance]_vars

\* A frame of the loop a shuffle started, run by the host after the shuffle, on the
\* new Field.
C26_Witness ==
    /\ op = "frame"
    /\ fx.frames = 1
    /\ g_cur_field_pattern = "ANTI_CLOCKWISE"
    /\ fx.advected_pattern = "ANTI_CLOCKWISE"
    /\ g_field_instance.pattern = "ANTI_CLOCKWISE"
    /\ \A cb \in raf_callbacks : cb.ff = g_field_instance

\* C28: in every reachable state 1 <= tick <= tick_limit + 1, and no frame is executed
\* when the tick already exceeds tick_limit: the work of a frame runs with a tick of
\* at most tick_limit + 1.
C28_TickWithinLimit ==
    /\ 1 <= g_frame_tick
    /\ g_frame_tick <= g_frame_tick_limit + 1
    /\ fx.frames = 1 => fx.work_tick <= g_frame_tick_limit + 1

\* C29: at most one scheduled frame is pending at any time, and it is the one whose
\* handle the script holds, so that stop, reload and shuffle cancel it: no sequence
\* of commands and resize events leaves two loops running.  No handler executes more
\* than one frame, so frames do not nest; a frame that has reached the limit or a
\* stop leaves none pending.
C29_AtMostOneFramePending ==
    /\ Cardinality(raf_callbacks) <= 1
    /\ \A cb \in raf_callbacks : cb.id = g_animation_frame_id_handle
    /\ fx.frames <= 1
    /\ fx.hit_limit => raf_callbacks = {}
    /\ op = "stop" => raf_callbacks = {}
    /\ (op \in {"reload", "shuffle"} /\ ~fx.hit_limit) => Cardinality(raf_callbacks) = 1

\* A shuffle in a running loop, within the delay of an earlier resize or shuffle:
\* one frame ran inside the handler and exactly one is pending.
C29_Witness ==
    /\ op = "shuffle"
    /\ burst_events = 2
    /\ fx.frames = 1
    /\ ~fx.hit_limit
    /\ stopped_by = "none"
    /\ Cardinality(raf_callbacks) = 1
    /\ \A cb \in raf_callbacks : cb.id = g_animation_frame_id_handle

\* C30: the particle stays on the visible surface.  In every state, so after every
\* frame and after every reset, 0 <= x <= canvas width and 0 <= y <= canvas height,
\* the extents the wrap uses being those of the canvas; this includes the states
\* after a resize event has shrunk the window and after the reset it leads to.  (The
\* displacement of one frame is below 0.6 here, the smaller extent being 6.)
C30_ParticleOnCanvas ==
    /\ g_canvas_width = canvas_width
    /\ g_canvas_height = canvas_height
    /\ 0 <= g_particle.x /\ g_particle.x <= canvas_width
    /\ 0 <= g_particle.y /\ g_particle.y <= canvas_height

\* A frame that carried the particle below 0 on x and past the canvas height on y,
\* wrapped on both axes: it is now near the right edge and near the top.
C30_Witness ==
    /\ fx.frames = 1
    /\ canvas_width = 6 * Q
    /\ g_particle.x > canvas_width - Q \div 10
    /\ g_particle.x < canvas_width
    /\ g_particle.y > 0
    /\ g_particle.y < Q

====
